---- MODULE Spec2Model ----
(***************************************************************************)
(* The wire-level frame codec and payload packers of cd_protocol           *)
(* (src/src/python/cd_protocol/__init__.py).                               *)
(*                                                                         *)
(* A byte string is a sequence of integers in 0..255.  MeshFrame.pack,     *)
(* MeshFrame.unpack, PayloadProfileNode.pack and PayloadProfileLoad.pack   *)
(* are operators computed as the code computes them; the actions apply     *)
(* them to a frame under encoding, to a receive buffer that a caller       *)
(* fills chunk by chunk and drains with repeated unpack calls, and to a    *)
(* profile under encoding.                                                 *)
(***************************************************************************)
EXTENDS Integers, Sequences, FiniteSets

VARIABLES
    segs,       \* what the sender put on the wire: raw bytes and frames, in order
    pending,    \* bytes of the wire that have not reached the receiver yet
    buffer,     \* the caller's receive buffer (the argument of the next unpack)
    input,      \* the argument of the last unpack call since bytes arrived
    result,     \* what that call returned, [frame, rem]; None before it
    emitted,    \* frames the unpack calls have returned so far, in order
    consumed,   \* number of unpack calls so far that removed bytes
    calls,      \* number of unpack calls that left the buffer as it stands
    split,      \* the wire reached the receiver in more than one chunk
    pc,         \* position of the caller
    frame,      \* the MeshFrame under encoding
    packed,     \* what the last pack call returned: [ok, error, bytes]
    profile     \* the PayloadProfileLoad under encoding

vars == <<segs, pending, buffer, input, result, emitted, consumed, calls, split, pc,
          frame, packed, profile>>

--------------------------------------------------------------------------
(* Program constants *)

HU_PROTOCOL_MAGIC == 165

HU_MAX_PAYLOAD_SIZE == 230

HEADER_SIZE == 9

\* the node cap of PayloadProfileLoad.pack
MAX_NODES == 17

\* Scaling steps of PayloadProfileNode.pack, in twentieths of a unit
\* (0.5, 0.1 and 1): every float of the model is an integer count of 1/20.
TEMP_STEP == 10

PRESS_STEP == 2

ENERGY_STEP == 20

(* Bounds of the model *)

\* payload lengths 0..MaxSmall and HU_MAX_PAYLOAD_SIZE-MaxOver..HU_MAX_PAYLOAD_SIZE+MaxOver
MaxSmall == 2

MaxOver == 2

\* number of segments (raw bytes, encoded frames) on the wire
MaxSegs == 4

\* number of garbage bytes in front of a frame
MaxGarbage == 3

\* repeated unpack calls on an unchanged buffer
MaxCalls == 3

\* node counts 0..MAX_NODES+MaxExtraNodes
MaxExtraNodes == 2

--------------------------------------------------------------------------
(* Values *)

None == [none |-> TRUE]

Byte == 0..255

Drop(s, n) == SubSeq(s, n + 1, Len(s))

Min(a, b) == IF a < b THEN a ELSE b

Max(a, b) == IF a > b THEN a ELSE b

NoPack == [ok |-> FALSE, error |-> "", bytes |-> <<>>]

MeshFrame(src, dst, type, payload, via, seq, flags) ==
    [src_id |-> src, dst_id |-> dst, msg_type |-> type, payload |-> payload,
     via_id |-> via, seq_num |-> seq, flags |-> flags]

--------------------------------------------------------------------------
(* MeshFrame.pack *)

\* the 16-bit field written high byte first
HeaderBE(magic, flags, src, dst, via, type, seq, plen) ==
    <<magic, flags, src, dst, via, type, seq \div 256, seq % 256, plen>>

\* struct "<BBBBBBHB": six bytes, a little-endian 16-bit field, one byte
HEADER_STRUCT_pack(magic, flags, src, dst, via, type, seq, plen) ==
    <<magic, flags, src, dst, via, type, seq % 256, seq \div 256, plen>>

\* struct.pack raises struct.error for a value outside its field
HeaderFits(f) ==
    /\ f.flags \in Byte /\ f.src_id \in Byte /\ f.dst_id \in Byte
    /\ f.via_id \in Byte /\ f.msg_type \in Byte
    /\ f.seq_num \in 0..65535

\* the size check with >= for >
PackOffByOne(f) ==
    IF Len(f.payload) >= HU_MAX_PAYLOAD_SIZE
    THEN [ok |-> FALSE, error |-> "ValueError", bytes |-> <<>>]
    ELSE IF ~HeaderFits(f)
    THEN [ok |-> FALSE, error |-> "struct.error", bytes |-> <<>>]
    ELSE [ok |-> TRUE, error |-> "",
          bytes |-> HEADER_STRUCT_pack(HU_PROTOCOL_MAGIC, f.flags, f.src_id,
                        f.dst_id, f.via_id, f.msg_type, f.seq_num,
                        Len(f.payload)) \o f.payload]

MeshFrame_pack(f) ==
    IF Len(f.payload) > HU_MAX_PAYLOAD_SIZE
    THEN [ok |-> FALSE, error |-> "ValueError", bytes |-> <<>>]
    ELSE IF ~HeaderFits(f)
    THEN [ok |-> FALSE, error |-> "struct.error", bytes |-> <<>>]
    ELSE [ok |-> TRUE, error |-> "",
          bytes |-> HEADER_STRUCT_pack(HU_PROTOCOL_MAGIC, f.flags, f.src_id,
                        f.dst_id, f.via_id, f.msg_type, f.seq_num,
                        Len(f.payload)) \o f.payload]

--------------------------------------------------------------------------
(* MeshFrame.unpack *)

\* the frame the header and the payload slice data[HEADER_SIZE:total_len] give;
\* a Python slice past the end of data is cut at the end
FrameOf(data, total_len) ==
    MeshFrame(data[3], data[4], data[6],
              SubSeq(data, HEADER_SIZE + 1, Min(total_len, Len(data))),
              data[5], data[7] + 256 * data[8], data[2])

\* the check of the payload's arrival left out: a cut frame is returned
UnpackNoLengthCheck(data) ==
    IF Len(data) < HEADER_SIZE THEN [frame |-> None, rem |-> data]
    ELSE IF data[1] # HU_PROTOCOL_MAGIC THEN [frame |-> None, rem |-> Drop(data, 1)]
    ELSE [frame |-> FrameOf(data, HEADER_SIZE + data[9]),
          rem |-> Drop(data, Min(HEADER_SIZE + data[9], Len(data)))]

\* resynchronisation that throws the whole header away
UnpackSkipHeader(data) ==
    IF Len(data) < HEADER_SIZE THEN [frame |-> None, rem |-> data]
    ELSE IF data[1] # HU_PROTOCOL_MAGIC
    THEN [frame |-> None, rem |-> Drop(data, HEADER_SIZE)]
    ELSE IF Len(data) < HEADER_SIZE + data[9] THEN [frame |-> None, rem |-> data]
    ELSE [frame |-> FrameOf(data, HEADER_SIZE + data[9]),
          rem |-> Drop(data, HEADER_SIZE + data[9])]

\* the sentinel check left out
UnpackNoMagicCheck(data) ==
    IF Len(data) < HEADER_SIZE THEN [frame |-> None, rem |-> data]
    ELSE IF Len(data) < HEADER_SIZE + data[9] THEN [frame |-> None, rem |-> data]
    ELSE [frame |-> FrameOf(data, HEADER_SIZE + data[9]),
          rem |-> Drop(data, HEADER_SIZE + data[9])]

MeshFrame_unpack(data) ==
    IF Len(data) < HEADER_SIZE THEN [frame |-> None, rem |-> data]
    ELSE IF data[1] # HU_PROTOCOL_MAGIC THEN [frame |-> None, rem |-> Drop(data, 1)]
    ELSE IF Len(data) < HEADER_SIZE + data[9] THEN [frame |-> None, rem |-> data]
    ELSE [frame |-> FrameOf(data, HEADER_SIZE + data[9]),
          rem |-> Drop(data, HEADER_SIZE + data[9])]

--------------------------------------------------------------------------
(* The bytes on the wire *)

RawSeg(b) == [kind |-> "raw", byte |-> b]

FrameSeg(f) == [kind |-> "frame", frame |-> f]

SegBytes(seg) ==
    IF seg.kind = "raw" THEN <<seg.byte>> ELSE MeshFrame_pack(seg.frame).bytes

RECURSIVE Wire(_)
Wire(ss) == IF ss = <<>> THEN <<>> ELSE SegBytes(Head(ss)) \o Wire(Tail(ss))

\* every byte the sender put on the wire
stream == Wire(segs)

--------------------------------------------------------------------------
(* The caller's consumption loop over MeshFrame.unpack *)

\* bytes arrive: the caller appends the next chunk to its buffer
Feed(n) ==
    /\ pc \in {"decode", "await"}
    /\ n \in 1..Len(pending)
    /\ buffer' = buffer \o SubSeq(pending, 1, n)
    /\ pending' = Drop(pending, n)
    /\ input' = <<>>
    /\ result' = None
    /\ calls' = 0
    /\ split' = (split \/ pending' # <<>>)
    /\ pc' = "decode"
    /\ UNCHANGED <<segs, emitted, consumed, frame, packed, profile>>

\* one call of MeshFrame.unpack on the buffer; the remainder becomes the buffer.
\* A frame or a shorter remainder: the loop goes on.  (none, unchanged): the
\* loop stops until bytes arrive; calling again is allowed and counted.
Decode ==
    /\ pc \in {"decode", "await"}
    /\ calls < MaxCalls
    /\ LET r == MeshFrame_unpack(buffer) IN
        /\ input' = buffer
        /\ result' = r
        /\ buffer' = r.rem
        /\ emitted' = IF r.frame # None THEN Append(emitted, r.frame) ELSE emitted
        /\ IF r.frame = None /\ r.rem = buffer
           THEN /\ consumed' = consumed
                /\ calls' = calls + 1
                /\ pc' = "await"
           ELSE /\ consumed' = consumed + 1
                /\ calls' = 0
                /\ pc' = "decode"
    /\ UNCHANGED <<segs, pending, split, frame, packed, profile>>

--------------------------------------------------------------------------
(* Spec: a wire of raw bytes and encoded frames, delivered in any chunks *)

StreamFrames ==
    { MeshFrame(1, 32, 50, <<>>, 0, 0, 0),
      MeshFrame(16, 1, 32, <<165, 2>>, 0, 258, 0) }

RawBytes == {165, 0, 3}

SegChoices == {RawSeg(b) : b \in RawBytes} \cup {FrameSeg(f) : f \in StreamFrames}

Scenarios == UNION {[1..n -> SegChoices] : n \in 0..MaxSegs}

Init ==
    /\ segs \in Scenarios
    /\ pending = Wire(segs)
    /\ buffer = <<>>
    /\ input = <<>>
    /\ result = None
    /\ emitted = <<>>
    /\ consumed = 0
    /\ calls = 0
    /\ split = FALSE
    /\ pc = "decode"
    /\ frame = None
    /\ packed = NoPack
    /\ profile = None

Next ==
    \/ \E n \in 1..Len(pending) : Feed(n)
    \/ Decode

Spec == Init /\ [][Next]_vars

--------------------------------------------------------------------------
(* Claims on the consumption loop, checked under Spec *)

\* the caller's loop run once on a whole byte string: the frames it emits
\* and what it leaves in the buffer when it stops on (none, unchanged)
RECURSIVE ConsumeAll(_)
ConsumeAll(buf) ==
    LET r == MeshFrame_unpack(buf) IN
    IF r.frame = None /\ r.rem = buf THEN [frames |-> <<>>, rem |-> buf]
    ELSE LET rest == ConsumeAll(r.rem) IN
         [frames |-> (IF r.frame # None THEN <<r.frame>> ELSE <<>>) \o rest.frames,
          rem |-> rest.rem]

\* a buffer with a whole header, the sentinel first, and not yet all the payload
Partial(b) ==
    /\ Len(b) >= HEADER_SIZE
    /\ b[1] = HU_PROTOCOL_MAGIC
    /\ Len(b) < HEADER_SIZE + b[9]

\* C2 as stated: for any buffer, of any length, whose first byte is not the
\* sentinel, unpack returns (none, buffer[1:]).
C2_ResyncAnyLength ==
    (result # None /\ input # <<>> /\ input[1] # HU_PROTOCOL_MAGIC)
        => result = [frame |-> None, rem |-> Drop(input, 1)]

\* C2 amended: for any buffer of at least HEADER_SIZE bytes whose first byte is
\* not the sentinel, unpack returns (none, buffer[1:]), one byte shorter; a
\* buffer shorter than HEADER_SIZE bytes is returned unchanged with no frame,
\* whatever its first byte.
C2_ResyncProgress ==
    result # None =>
        /\ (Len(input) >= HEADER_SIZE /\ input[1] # HU_PROTOCOL_MAGIC)
              => /\ result = [frame |-> None, rem |-> Drop(input, 1)]
                 /\ Len(result.rem) = Len(input) - 1
                 /\ buffer = result.rem
        /\ Len(input) < HEADER_SIZE
              => result = [frame |-> None, rem |-> input]

C2_Witness ==
    /\ result # None
    /\ Len(input) >= HEADER_SIZE
    /\ input[1] # HU_PROTOCOL_MAGIC
    /\ buffer = Drop(input, 1)
    /\ consumed >= 1

\* C3: every unpack call on a buffer that starts with the sentinel, holds at
\* least HEADER_SIZE bytes and fewer than HEADER_SIZE plus its length byte
\* returns (none, that buffer) and leaves the buffer and the emitted frames as
\* they were; so the next call sees the same buffer, and so on, until bytes
\* are appended.
C3_PartialDataStability ==
    [][(Partial(buffer) /\ result' # None)
          => /\ result' = [frame |-> None, rem |-> buffer]
             /\ input' = buffer
             /\ buffer' = buffer
             /\ emitted' = emitted
             /\ consumed' = consumed]_vars

C3_Witness ==
    /\ Partial(buffer)
    /\ calls >= 2
    /\ input = buffer
    /\ result = [frame |-> None, rem |-> buffer]

\* C6: every unpack call has exactly one of three outcomes, (frame, input
\* minus its first HEADER_SIZE + length-byte bytes), (none, input), (none,
\* input minus its first byte); what is left is always a suffix of the wire,
\* and the calls that removed bytes are at most as many as the bytes removed.
C6_ThreeOutcomes ==
    /\ result # None =>
         LET gotFrame ==
                 /\ result.frame # None
                 /\ Len(input) >= HEADER_SIZE
                 /\ Len(input) >= HEADER_SIZE + input[9]
                 /\ Len(result.frame.payload) = input[9]
                 /\ result.rem = Drop(input, HEADER_SIZE + input[9])
             wait == result.frame = None /\ result.rem = input
             skip ==
                 /\ result.frame = None
                 /\ input # <<>>
                 /\ result.rem = Drop(input, 1)
         IN  /\ gotFrame \/ wait \/ skip
             /\ ~(gotFrame /\ wait) /\ ~(gotFrame /\ skip) /\ ~(wait /\ skip)
             /\ buffer = result.rem
             /\ (pc = "await") = wait
    /\ Len(buffer) + Len(pending) <= Len(stream)
    /\ buffer \o pending = Drop(stream, Len(stream) - Len(buffer) - Len(pending))
    /\ consumed <= Len(stream) - Len(buffer) - Len(pending)

C6_Witness ==
    /\ pc = "await"
    /\ pending = <<>>
    /\ Len(emitted) >= 1
    /\ consumed >= Len(emitted) + 2
    /\ buffer # <<>>

\* C10: once the whole wire has arrived and the loop has stopped, the frames
\* emitted and the bytes left in the buffer are those of the loop run once on
\* the whole wire, however the wire was cut into chunks; when the wire is
\* f1.pack() ++ ... ++ fn.pack(), they are f1..fn in order and nothing is left.
C10_ChunkingIndependence ==
    (pending = <<>> /\ pc = "await") =>
        /\ emitted = ConsumeAll(stream).frames
        /\ buffer = ConsumeAll(stream).rem
        /\ (\A i \in 1..Len(segs) : segs[i].kind = "frame")
              => /\ emitted = [i \in 1..Len(segs) |-> segs[i].frame]
                 /\ buffer = <<>>

C10_Witness ==
    /\ pending = <<>>
    /\ pc = "await"
    /\ split
    /\ Len(segs) >= 2
    /\ \A i \in 1..Len(segs) : segs[i].kind = "frame"
    /\ Len(emitted) = Len(segs)
    /\ emitted[1] # emitted[2]

--------------------------------------------------------------------------
(* SpecResync: garbage bytes, then one encoded frame, all in the buffer *)

GarbageBytes == {0, 2, 164}

InitResync ==
    /\ \E k \in 0..MaxGarbage : \E g \in [1..k -> GarbageBytes] :
         \E f \in StreamFrames :
            segs = [i \in 1..(k + 1) |->
                       IF i <= k THEN RawSeg(g[i]) ELSE FrameSeg(f)]
    /\ pending = <<>>
    /\ buffer = Wire(segs)
    /\ input = <<>>
    /\ result = None
    /\ emitted = <<>>
    /\ consumed = 0
    /\ calls = 0
    /\ split = FALSE
    /\ pc = "decode"
    /\ frame = None
    /\ packed = NoPack
    /\ profile = None

NextResync == Decode

SpecResync == InitResync /\ [][NextResync]_vars

\* C7: with k bytes, none the sentinel, in front of f.pack(), each of the
\* first k unpack calls returns (none, the buffer less its first byte) and
\* emits nothing, call k+1 returns (f, empty), and the calls after it find
\* the buffer empty: f is emitted once, unaltered.  The calls made so far are
\* consumed + calls: those that removed bytes and those that did not.
C7_GarbagePrefixRecovery ==
    LET k == Len(segs) - 1
        f == segs[Len(segs)].frame
        n == consumed + calls
    IN  /\ n \in 1..k
            => /\ result = [frame |-> None, rem |-> Drop(stream, n)]
               /\ Len(result.rem) = Len(input) - 1
               /\ emitted = <<>>
               /\ calls = 0
        /\ n = k + 1
            => /\ result = [frame |-> f, rem |-> <<>>]
               /\ emitted = <<f>>
               /\ calls = 0
        /\ n > k + 1 => (emitted = <<f>> /\ buffer = <<>>)

C7_Witness ==
    /\ Len(segs) = 4
    /\ consumed = 4
    /\ calls = 0
    /\ result.frame = segs[4].frame
    /\ result.frame.payload # <<>>
    /\ buffer = <<>>

--------------------------------------------------------------------------
(* SpecCodec: a frame is encoded and decoded again; foreign bytes are decoded *)

\* a payload of n bytes: start, start + stride, ... (mod 256)
Payload(n, start, stride) == [i \in 1..n |-> (start + stride * (i - 1)) % 256]

PayloadLens ==
    (0..MaxSmall)
    \cup ((HU_MAX_PAYLOAD_SIZE - MaxOver)..(HU_MAX_PAYLOAD_SIZE + MaxOver))

\* header fields: plain ones, extreme ones, and a sequence number too wide
Headers ==
    { MeshFrame(1, 32, 50, <<>>, 0, 0, 0),
      MeshFrame(255, 165, 17, <<>>, 165, 258, 128),
      MeshFrame(16, 1, 33, <<>>, 0, 65535, 255),
      MeshFrame(1, 16, 16, <<>>, 0, 65536, 0) }

CodecFrames ==
    { [h EXCEPT !.payload = Payload(n, fill[1], fill[2])] :
        h \in Headers, n \in PayloadLens, fill \in {<<165, 0>>, <<1, 1>>} }

\* bytes no pack call of this code made: a header with length byte p, then n bytes
Foreign ==
    UNION { { HEADER_STRUCT_pack(HU_PROTOCOL_MAGIC, 0, 2, 1, 0, 48, 7, p)
                  \o Payload(n, 0, 1) : n \in {p, p + 1} } :
            p \in PayloadLens \cup {255} }

Pack ==
    /\ pc = "frame"
    /\ packed' = MeshFrame_pack(frame)
    /\ pc' = "encoded"
    /\ UNCHANGED <<segs, pending, buffer, input, result, emitted, consumed,
                   calls, split, frame, profile>>

\* the encoded frame reaches a receiver whole
Loopback ==
    /\ pc = "encoded"
    /\ packed.ok
    /\ buffer' = packed.bytes
    /\ pc' = "decode"
    /\ UNCHANGED <<segs, pending, input, result, emitted, consumed, calls,
                   split, frame, packed, profile>>

\* bytes of another sender reach the receiver instead
Receive(raw) ==
    /\ pc = "frame"
    /\ buffer' = raw
    /\ pc' = "decode"
    /\ UNCHANGED <<segs, pending, input, result, emitted, consumed, calls,
                   split, frame, packed, profile>>

InitCodec ==
    /\ frame \in CodecFrames
    /\ pc = "frame"
    /\ packed = NoPack
    /\ segs = <<>>
    /\ pending = <<>>
    /\ buffer = <<>>
    /\ input = <<>>
    /\ result = None
    /\ emitted = <<>>
    /\ consumed = 0
    /\ calls = 0
    /\ split = FALSE
    /\ profile = None

NextCodec ==
    \/ Pack
    \/ Loopback
    \/ \E raw \in Foreign : Receive(raw)
    \/ Decode

SpecCodec == InitCodec /\ [][NextCodec]_vars

\* the frames C1 and C4 speak of
ValidFrame(f) == HeaderFits(f) /\ Len(f.payload) <= HU_MAX_PAYLOAD_SIZE

\* C1: a frame with fields in range and at most HU_MAX_PAYLOAD_SIZE payload
\* bytes is encoded, and unpack of its encoding returns it, every field and
\* payload byte equal, with an empty remainder.
C1_FrameRoundTrip ==
    ValidFrame(frame) =>
        /\ packed # NoPack => packed.ok
        /\ (packed.ok /\ result # None /\ input = packed.bytes)
              => /\ result = [frame |-> frame, rem |-> <<>>]
                 /\ emitted = <<frame>>
                 /\ buffer = <<>>

C1_Witness ==
    /\ packed.ok
    /\ result # None
    /\ input = packed.bytes
    /\ result.frame = frame
    /\ Len(frame.payload) = HU_MAX_PAYLOAD_SIZE
    /\ frame.seq_num = 258

\* C4: pack returns HEADER_SIZE + len(payload) bytes, at most 239, for every
\* payload of 0..HU_MAX_PAYLOAD_SIZE bytes (fields in range), and fails with
\* the payload-too-large error and no bytes for every longer payload.
C4_SizeBoundary ==
    packed # NoPack =>
        /\ Len(frame.payload) > HU_MAX_PAYLOAD_SIZE
              => packed = [ok |-> FALSE, error |-> "ValueError", bytes |-> <<>>]
        /\ ValidFrame(frame)
              => /\ packed.ok
                 /\ Len(packed.bytes) = HEADER_SIZE + Len(frame.payload)
                 /\ Len(packed.bytes) <= 239
                 /\ Drop(packed.bytes, HEADER_SIZE) = frame.payload
                 /\ packed.bytes[9] = Len(frame.payload)

C4_Witness ==
    /\ packed.ok
    /\ Len(frame.payload) = HU_MAX_PAYLOAD_SIZE
    /\ Len(packed.bytes) = HEADER_SIZE + HU_MAX_PAYLOAD_SIZE

C4_WitnessTooLarge ==
    /\ Len(frame.payload) = HU_MAX_PAYLOAD_SIZE + 1
    /\ packed = [ok |-> FALSE, error |-> "ValueError", bytes |-> <<>>]

\* C5: every frame an unpack call returns, whatever the buffer, has at most
\* HU_MAX_PAYLOAD_SIZE payload bytes, and the call removed at most 239 bytes.
C5_DecodedFrameSize ==
    (result # None /\ result.frame # None)
        => /\ Len(result.frame.payload) <= HU_MAX_PAYLOAD_SIZE
           /\ Len(input) - Len(result.rem) <= HEADER_SIZE + HU_MAX_PAYLOAD_SIZE

--------------------------------------------------------------------------
(* PayloadProfileNode.pack and PayloadProfileLoad.pack *)

\* Python 3 round() of the exact quotient val / step: to the nearest integer,
\* a tie to the even one.  val and step count twentieths; the values the
\* model feeds are those whose binary64 quotient rounds as the exact one does.
round(val, step) ==
    LET q == val \div step
        r == val % step
    IN  IF 2 * r < step THEN q
        ELSE IF 2 * r > step THEN q + 1
        ELSE IF q % 2 = 0 THEN q ELSE q + 1

\* _s(val, factor): max(0, min(255, int(round(val / factor))))
ScaleClamp(val, step) == Max(0, Min(255, round(val, step)))

\* the ten scaled fields, in the order they are written
Scaled(node) ==
    << ScaleClamp(node.temp_target, TEMP_STEP),
       ScaleClamp(node.temp_tol, TEMP_STEP),
       ScaleClamp(node.press_target, PRESS_STEP),
       ScaleClamp(node.press_tol, PRESS_STEP),
       ScaleClamp(node.flow_in_target, PRESS_STEP),
       ScaleClamp(node.flow_in_tol, PRESS_STEP),
       ScaleClamp(node.flow_out_target, PRESS_STEP),
       ScaleClamp(node.flow_out_tol, PRESS_STEP),
       ScaleClamp(node.energy_target, ENERGY_STEP),
       ScaleClamp(node.energy_tol, ENERGY_STEP) >>

\* struct "<HB BBBBBBBBBB": struct.error when the time offset is no uint16
PayloadProfileNode_pack(node) ==
    LET config == (node.interpolation % 4) + (node.priority % 4) * 4 IN
    IF node.time_offset_ms \notin 0..65535
    THEN [ok |-> FALSE, error |-> "struct.error", bytes |-> <<>>]
    ELSE [ok |-> TRUE, error |-> "",
          bytes |-> <<node.time_offset_ms % 256, node.time_offset_ms \div 256,
                      config>> \o Scaled(node)]

\* the loop "for node in self.nodes: payload += node.pack()"
RECURSIVE PackNodes(_, _)
PackNodes(payload, nodes) ==
    IF nodes = <<>> THEN [ok |-> TRUE, error |-> "", bytes |-> payload]
    ELSE LET r == PayloadProfileNode_pack(Head(nodes)) IN
         IF ~r.ok THEN r
         ELSE PackNodes(payload \o r.bytes, Tail(nodes))

\* the node cap one too high
ProfilePackCapOffByOne(p) ==
    IF Len(p.nodes) > MAX_NODES + 1
    THEN [ok |-> FALSE, error |-> "ValueError", bytes |-> <<>>]
    ELSE IF p.profile_id \notin Byte
    THEN [ok |-> FALSE, error |-> "struct.error", bytes |-> <<>>]
    ELSE PackNodes(<<p.profile_id, Len(p.nodes)>>, p.nodes)

PayloadProfileLoad_pack(p) ==
    IF Len(p.nodes) > MAX_NODES
    THEN [ok |-> FALSE, error |-> "ValueError", bytes |-> <<>>]
    ELSE IF p.profile_id \notin Byte
    THEN [ok |-> FALSE, error |-> "struct.error", bytes |-> <<>>]
    ELSE PackNodes(<<p.profile_id, Len(p.nodes)>>, p.nodes)

--------------------------------------------------------------------------
(* SpecProfile: a profile is encoded, wrapped in a frame, and the frame encoded *)

Node(time, prio, interp, vals) ==
    [time_offset_ms |-> time, priority |-> prio, interpolation |-> interp,
     temp_target |-> vals[1], temp_tol |-> vals[2],
     press_target |-> vals[3], press_tol |-> vals[4],
     flow_in_target |-> vals[5], flow_in_tol |-> vals[6],
     flow_out_target |-> vals[7], flow_out_tol |-> vals[8],
     energy_target |-> vals[9], energy_tol |-> vals[10]]

\* values in twentieths: 93.5 C is 1870, 9.0 bar is 180, energy 100 is 2000
Nodes ==
    { \* a usual node: 93.5/1.0 C, 9.0/0.5 bar, 2.0/0.2 and 1.5/0.3 ml/s, 100/10
      Node(1000, 1, 0, <<1870, 20, 180, 10, 40, 4, 30, 6, 2000, 200>>),
      \* quotients halfway between two integers: 0.25 and 1.25 C, 0.05, 0.25
      \* and 0.45 bar or ml/s, energy 2.5 and 0.5
      Node(0, 0, 1, <<5, 25, 1, 5, 9, 1, 5, 9, 50, 10>>),
      \* out of range: 200 and 127.75 C, 30.0 and 25.55 bar, negative values,
      \* energy 300 and -3; priority and interpolation wider than two bits
      Node(65535, 7, 6, <<4000, 2555, 600, 511, -20, -1, 5100, 0, 6000, -60>>),
      \* a time offset that is no uint16
      Node(65536, 2, 2, <<1870, 20, 180, 10, 40, 4, 30, 6, 2000, 200>>) }

Profiles ==
    { [profile_id |-> id,
       nodes |-> [i \in 1..n |-> IF i % 2 = 1 THEN ab[1] ELSE ab[2]]] :
        id \in {7, 256}, n \in 0..(MAX_NODES + MaxExtraNodes),
        ab \in Nodes \X Nodes }

PackProfile ==
    /\ pc = "profile"
    /\ packed' = PayloadProfileLoad_pack(profile)
    /\ pc' = "payload"
    /\ UNCHANGED <<segs, pending, buffer, input, result, emitted, consumed,
                   calls, split, frame, profile>>

\* the caller wraps the encoded profile in a CMD_PROFILE_LOAD frame
Wrap ==
    /\ pc = "payload"
    /\ packed.ok
    /\ frame' = MeshFrame(1, 16, 17, packed.bytes, 0, 0, 0)
    /\ pc' = "frame"
    /\ UNCHANGED <<segs, pending, buffer, input, result, emitted, consumed,
                   calls, split, packed, profile>>

InitProfile ==
    /\ profile \in Profiles
    /\ pc = "profile"
    /\ frame = None
    /\ packed = NoPack
    /\ segs = <<>>
    /\ pending = <<>>
    /\ buffer = <<>>
    /\ input = <<>>
    /\ result = None
    /\ emitted = <<>>
    /\ consumed = 0
    /\ calls = 0
    /\ split = FALSE

NextProfile ==
    \/ PackProfile
    \/ Wrap
    \/ Pack

SpecProfile == InitProfile /\ [][NextProfile]_vars

\* the profiles C8 speaks of: every field fits its struct field
ProfileFits(p) ==
    /\ p.profile_id \in Byte
    /\ \A i \in 1..Len(p.nodes) : p.nodes[i].time_offset_ms \in 0..65535

\* C8: PayloadProfileLoad.pack fails with the too-many-nodes error and no
\* bytes when there are more than MAX_NODES nodes; for n in 0..MAX_NODES
\* nodes it returns 2 + 13*n bytes, the profile id, n, then the n 13-byte
\* node records in list order, at most HU_MAX_PAYLOAD_SIZE bytes, and
\* MeshFrame.pack accepts them as a payload.
C8_NodeListCap ==
    LET n == Len(profile.nodes) IN
    /\ pc = "payload" =>
        /\ n > MAX_NODES
              => packed = [ok |-> FALSE, error |-> "ValueError", bytes |-> <<>>]
        /\ (n <= MAX_NODES /\ ProfileFits(profile))
              => /\ packed.ok
                 /\ Len(packed.bytes) = 2 + 13 * n
                 /\ Len(packed.bytes) <= HU_MAX_PAYLOAD_SIZE
                 /\ packed.bytes[1] = profile.profile_id
                 /\ packed.bytes[2] = n
                 /\ \A i \in 1..n :
                       SubSeq(packed.bytes, 13 * i - 10, 13 * i + 2)
                           = PayloadProfileNode_pack(profile.nodes[i]).bytes
    /\ pc = "frame" => Len(frame.payload) <= HU_MAX_PAYLOAD_SIZE
    /\ pc = "encoded" =>
        /\ packed.ok
        /\ Len(packed.bytes) = HEADER_SIZE + 2 + 13 * n
        /\ Drop(packed.bytes, HEADER_SIZE) = frame.payload

C8_Witness ==
    /\ pc = "encoded"
    /\ Len(profile.nodes) = MAX_NODES
    /\ profile.nodes[1] # profile.nodes[2]
    /\ packed.ok
    /\ Len(frame.payload) = 2 + 13 * MAX_NODES

\* the quotient val / step rounded to the nearest integer, a tie away from zero
RoundAwayFromZero(val, step) ==
    IF val >= 0 THEN (2 * val + step) \div (2 * step)
    ELSE -((2 * (-val) + step) \div (2 * step))

====
